---- MODULE Spec2Model ----
(***************************************************************************)
(* Model of frontegg.common.async_identity_mixin.IdentityAsyncClientMixin: *)
(* the cached public key with its bounded fetch/retry loop, the resolver   *)
(* dispatch of validate_identity_on_token and the decode_jwt path.         *)
(*                                                                         *)
(* A task is one coroutine calling into a validator instance.  A task      *)
(* takes one step from one await to the next; the code between two awaits  *)
(* runs without interleaving (asyncio's cooperative scheduling).           *)
(***************************************************************************)
EXTENDS Integers, Sequences, FiniteSets, TLC

\* ------------------------------------------------------------- bounds
NumTasks == 2
NumInst == 2

Tasks == 1..NumTasks
Instances == 1..NumInst

\* ------------------------------------------------------------- values
\* Python's None, as the value of a key, a resolver slot or a result.
None == "None"
\* The empty string a 2xx body may carry as its publicKey.
EmptyStr == ""
Keys == {"K1", "K2"}

\* `while reties < 10`
RetryLimit == 10

\* Credentials are sequences of characters; a missing credential (None) is
\* the one-element sequence NoneTok, which no string of characters equals.
NoneTok == <<"<None>">>
Bearer == <<"B", "e", "a", "r", "e", "r", " ">>
Credentials ==
    { NoneTok,
      <<>>,
      Bearer,
      <<"x">>,
      Bearer \o <<"x">>,
      <<"x", " ">> \o Bearer \o <<"y">> }

\* AuthHeaderType values, and a type string outside the enum.
JWT == "JWT"
AccessToken == "AccessToken"
AuthHeaderType == {JWT, AccessToken}
Types == AuthHeaderType \cup {"Other"}

\* self.__tokenResolvers, in list order.
tokenResolvers == <<"AuthorizationJWTAsyncResolver", "AccessTokenAsyncResolver">>
Resolvers == 1..Len(tokenResolvers)

Entities == {"E1", "E2"}

VARIABLES
    publicKey,    \* instance -> the value self.__publicKey reads
    handles,      \* resolver index -> the declared types its should_handle accepts
    task,         \* task -> the frame of the call it is in (or was last in)
    lastFetched   \* instance -> the key the last completed successful fetch returned

vars == <<publicKey, handles, task, lastFetched>>

\* ------------------------------------------------------------- outcomes
NoOutcome == [kind |-> "none", val |-> None, at |-> "none"]
Return(v) == [kind |-> "return", val |-> v, at |-> "return"]
Raise(e, where) == [kind |-> "raise", val |-> e, at |-> where]

\* ------------------------------------------------------------- str.replace
\* token.replace("Bearer ", ""): every non-overlapping occurrence, scanning
\* from the left, is removed.
RECURSIVE Replace(_)
Replace(s) ==
    IF Len(s) < Len(Bearer) THEN s
    ELSE IF SubSeq(s, 1, Len(Bearer)) = Bearer
         THEN Replace(SubSeq(s, Len(Bearer) + 1, Len(s)))
         ELSE <<Head(s)>> \o Replace(Tail(s))

\* Lines 64-68: for type JWT the prefix is stripped; None has no replace, the
\* AttributeError is swallowed and the token stays None.
StripBearer(token, type) ==
    IF type = JWT /\ token # NoneTok THEN Replace(token) ELSE token

\* ------------------------------------------------------------- frames
IdleFrame ==
    [ pc          |-> "idle",
      op          |-> "none",
      inst        |-> 1,
      credential  |-> NoneTok,   \* the argument as passed
      type        |-> JWT,
      verify      |-> TRUE,
      token       |-> NoneTok,   \* the local `token` / `jwt_token`
      reties      |-> 0,
      public_key  |-> None,
      resolver    |-> 0,
      outcome     |-> NoOutcome,
      keyStatus   |-> "none",    \* how get_public_key ended: hit, fetched, exhausted
      fetchCalls  |-> 0,         \* fetch_public_key invocations of this call
      should_refresh |-> FALSE,  \* line 49 read True, the refresh is still due
      prev        |-> "none",    \* keyStatus of the caller's previous call (history)
      netUsed     |-> FALSE,     \* a refresh or a GET was issued by this call
      resolved    |-> NoOutcome  \* what resolver.validate_token produced
    ]

\* The call ends: it returns or raises `out` to its caller.
Finish(f, out) == [f EXCEPT !.pc = "done", !.outcome = out]

\* ------------------------------------------------------------- resolvers
\* resolver.should_handle(type)
should_handle(r, type) == type \in handles[r]

\* Lines 78-81: `for _resolver in self.__tokenResolvers`, from list position
\* idx on, leaving at the first resolver whose should_handle is True; 0 is
\* the loop running off the end of the list.
RECURSIVE Scan(_, _)
Scan(type, idx) ==
    IF idx > Len(tokenResolvers) THEN 0
    ELSE IF should_handle(idx, type) THEN idx
    ELSE Scan(type, idx + 1)

\* Bug variant: the loop has no `break`, the last match wins.
RECURSIVE ScanNoBreak(_, _, _)
ScanNoBreak(type, idx, found) ==
    IF idx > Len(tokenResolvers) THEN found
    ELSE ScanNoBreak(type, idx + 1, IF should_handle(idx, type) THEN idx ELSE found)
SelectResolverLast(type) == ScanNoBreak(type, 1, 0)

\* Bug variant: with no match the first resolver is used.
SelectResolverDefault(type) == IF Scan(type, 1) = 0 THEN 1 ELSE Scan(type, 1)

\* Lines 77-81: `resolver = None`, then the scan; 0 stands for None.
SelectResolver(type) == Scan(type, 1)

\* What validate_token may produce for a token: a malformed (missing or
\* empty) token is rejected, any other token is accepted or rejected.
ResolverOutcomes(token) ==
    {Raise("InvalidCredentialError", "validate_token")}
        \cup (IF token \in {NoneTok, <<>>} THEN {}
              ELSE {Return(e) : e \in Entities})

\* What __get_jwt_data may produce.
DecodeOutcomes(f) ==
    IF f.op = "decode_jwt"
    THEN {Return("claims"), Raise("InvalidTokenError", "decode")}
    ELSE {NoOutcome}

\* ------------------------------------------------------------- get_public_key
\* Bug variant: the cached key is never used.
CacheHitNever(key) == FALSE

\* `if self.__publicKey:` -- None and the empty string are falsy.
CacheHit(key) == key \notin {None, EmptyStr}

\* Bug variant: off by one, an 11th attempt.
ShouldRetryInclusive(reties) == reties <= RetryLimit

\* `while reties < 10`
ShouldRetry(reties) == reties < RetryLimit

\* Bug variant: the GET is issued without refreshing the vendor token first.
StartFetchNoRefresh(f, sr) ==
    [f EXCEPT !.pc = "get",
              !.should_refresh = sr,
              !.fetchCalls = @ + 1,
              !.netUsed = TRUE]

\* Lines 48-53: entering fetch_public_key; sr is should_refresh_vendor_token.
\* The call suspends in refresh_vendor_token() or, with no refresh, in get().
StartFetch(f, sr) ==
    [f EXCEPT !.pc = IF sr THEN "refresh" ELSE "get",
              !.should_refresh = sr,
              !.fetchCalls = @ + 1,
              !.netUsed = TRUE]

\* Bug variant: the failed attempt is counted and the next one starts at
\* once, without the sleep.
FetchFailedNoSleep(f) ==
    [f EXCEPT !.reties = @ + 1, !.pc = "get", !.fetchCalls = @ + 1,
              !.should_refresh = FALSE]

\* Bug variant: the failed attempt is not counted.
FetchFailedNoCount(f) == [f EXCEPT !.pc = "sleep", !.should_refresh = FALSE]

\* Lines 40-44: any exception of the attempt is counted and the call sleeps.
FetchFailed(f) ==
    [f EXCEPT !.reties = @ + 1, !.pc = "sleep", !.should_refresh = FALSE]

\* The code that runs once get_public_key has returned `key` to its caller,
\* up to the caller's next await or its end.
\*   get_public_key called directly: the call ends with the key;
\*   validate_identity_on_token, lines 77-86: resolver scan, then
\*       `await resolver.validate_token(token, public_key, options)`;
\*   decode_jwt, lines 96-100: the synchronous decode, whose outcome is d.
\* The frame of get_public_key is gone by then, and with it `reties` and the
\* count of its fetch attempts; a direct call keeps them until it is taken.
AfterKey(f, key, d) ==
    LET g == [f EXCEPT !.public_key = key, !.reties = 0, !.fetchCalls = 0,
                       !.should_refresh = FALSE]
    IN  CASE f.op = "get_public_key" ->
                Finish([f EXCEPT !.should_refresh = FALSE], Return(key))
          [] f.op = "validate_identity_on_token" ->
                LET r == SelectResolver(f.type)
                IN  IF r = 0
                    THEN Finish(g, Raise("UnauthenticatedException", "no_resolver"))
                    ELSE [g EXCEPT !.resolver = r, !.pc = "validate_token"]
          [] f.op = "decode_jwt" -> Finish(g, d)

\* Bug variant: the loop looks at the cache again before each attempt and
\* takes a key another call has stored meanwhile.
LoopTestRecheck(f, sr, d) ==
    IF CacheHit(publicKey[f.inst])
    THEN AfterKey([f EXCEPT !.keyStatus = "hit"], publicKey[f.inst], d)
    ELSE IF ShouldRetry(f.reties)
    THEN StartFetch(f, sr)
    ELSE AfterKey([f EXCEPT !.keyStatus = "exhausted"], None, d)

\* Bug variant: running out of attempts raises instead of returning None.
LoopTestRaises(f, sr, d) ==
    IF ShouldRetry(f.reties)
    THEN StartFetch(f, sr)
    ELSE Finish([f EXCEPT !.keyStatus = "exhausted"],
                Raise("KeyFetchError", "get_public_key"))

\* Lines 36-46: the loop test, evaluated on entry and after every sleep.  A
\* true test starts the next fetch attempt; a false one falls off the end of
\* get_public_key, which returns None.
LoopTest(f, sr, d) ==
    IF ShouldRetry(f.reties)
    THEN StartFetch(f, sr)
    ELSE AfterKey([f EXCEPT !.keyStatus = "exhausted"], None, d)

\* Bug variant: a call that follows an exhausted one gives up at once.
EnterGetPublicKeyGivesUp(f, cached, sr, d) ==
    IF CacheHit(cached)
    THEN AfterKey([f EXCEPT !.keyStatus = "hit"], cached, d)
    ELSE IF f.prev = "exhausted"
    THEN AfterKey([f EXCEPT !.keyStatus = "exhausted"], None, d)
    ELSE LoopTest([f EXCEPT !.reties = 0], sr, d)

\* Lines 30-36: the cached key is returned at once; otherwise the retry loop
\* starts with reties = 0.
EnterGetPublicKey(f, cached, sr, d) ==
    IF CacheHit(cached)
    THEN AfterKey([f EXCEPT !.keyStatus = "hit"], cached, d)
    ELSE LoopTest([f EXCEPT !.reties = 0], sr, d)

\* Bug variant: the fetched key is returned but not kept.
StoreKeyDropped(cache, i, v) == cache

\* Bug variant: the key is stored for every validator, not for the one that
\* fetched it.
StoreKeyAll(cache, i, v) == [j \in DOMAIN cache |-> v]

\* Bug variant: a body without publicKey is stored as the empty string
\* (`data.get('publicKey', '')`).
StoreKeyDefault(cache, i, v) ==
    [cache EXCEPT ![i] = IF v = None THEN EmptyStr ELSE v]

\* Line 38: `self.__publicKey = <fetched>` on instance i.
StoreKey(cache, i, v) == [cache EXCEPT ![i] = v]

\* Bug variant: only a None header is refused (`is None`).
HeaderMissingNoneOnly(h) == h = NoneTok

\* `if not authorization_header:`
HeaderMissing(h) == h \in {NoneTok, <<>>}

\* Lines 58-72: validate_identity_on_token up to its first await.
ValidateEntry(f, cached, sr) ==
    EnterGetPublicKey([f EXCEPT !.token = StripBearer(f.credential, f.type)],
                      cached, sr, NoOutcome)

\* Lines 89-95: decode_jwt up to its first await.
DecodeJwtEntry(f, cached, sr, d) ==
    IF HeaderMissing(f.credential)
    THEN Finish(f, Raise("InvalidTokenError", "header_missing"))
    ELSE EnterGetPublicKey([f EXCEPT !.token = Replace(f.credential)],
                           cached, sr, d)

\* Lines 86-87: the resolver's result, or its exception, is the call's own.
ValidateTokenReturn(f, res) == Finish([f EXCEPT !.resolved = res], res)

\* The answers of the configuration endpoint: a 2xx body with a publicKey
\* (a key or the empty string) or without one (data.get gives None), or a
\* failure: the request raises, raise_for_status raises, json() raises.
FetchedValues == Keys \cup {EmptyStr, None}
FetchFailures == {"network", "status", "body"}

\* ------------------------------------------------------------- initial state
TypeOK ==
    /\ publicKey \in [Instances -> Keys \cup {None, EmptyStr}]
    /\ lastFetched \in [Instances -> Keys \cup {None, EmptyStr}]
    /\ handles \in [Resolvers -> SUBSET AuthHeaderType]
    /\ \A t \in Tasks :
          /\ task[t].pc \in {"idle", "refresh", "get", "sleep", "validate_token", "done"}
          /\ task[t].reties \in 0..RetryLimit
          /\ task[t].fetchCalls \in 0..RetryLimit
          /\ task[t].should_refresh \in BOOLEAN
          /\ task[t].prev \in {"none", "hit", "fetched", "exhausted"}

\* The resolvers as the SDK registers them: each accepts its own type.
StandardHandles ==
    [r \in Resolvers |-> IF r = 1 THEN {JWT} ELSE {AccessToken}]

InitCommon ==
    /\ publicKey = [i \in Instances |-> None]   \* class attribute __publicKey = None
    /\ lastFetched = [i \in Instances |-> None]
    /\ task = [t \in Tasks |-> IdleFrame]

\* ------------------------------------------------------------- actions
\* A caller awaits get_public_key() on instance i.
GetPublicKeyCall(t, i) ==
    /\ task[t].pc = "idle"
    /\ \E sr \in BOOLEAN :
          task' = [task EXCEPT ![t] =
                      EnterGetPublicKey(
                          [IdleFrame EXCEPT !.op = "get_public_key", !.inst = i],
                          publicKey[i], sr, NoOutcome)]
    /\ UNCHANGED <<publicKey, handles, lastFetched>>

\* A caller awaits validate_identity_on_token(cred, options, type).
ValidateCall(t, i, cred, type) ==
    /\ task[t].pc = "idle"
    /\ \E sr \in BOOLEAN :
          task' = [task EXCEPT ![t] =
                      ValidateEntry(
                          [IdleFrame EXCEPT !.op = "validate_identity_on_token",
                                            !.inst = i,
                                            !.credential = cred,
                                            !.type = type],
                          publicKey[i], sr)]
    /\ UNCHANGED <<publicKey, handles, lastFetched>>

\* A caller awaits decode_jwt(header, verify).
DecodeJwtCall(t, i, header, verify) ==
    /\ task[t].pc = "idle"
    /\ LET f == [IdleFrame EXCEPT !.op = "decode_jwt",
                                  !.inst = i,
                                  !.credential = header,
                                  !.verify = verify]
       IN  \E sr \in BOOLEAN, d \in DecodeOutcomes(f) :
              task' = [task EXCEPT ![t] = DecodeJwtEntry(f, publicKey[i], sr, d)]
    /\ UNCHANGED <<publicKey, handles, lastFetched>>

\* refresh_vendor_token() completes: on success the GET is issued (line 52),
\* on failure the attempt ends in the except branch.
RefreshDone(t) ==
    /\ task[t].pc = "refresh"
    /\ \E ok \in BOOLEAN :
          task' = [task EXCEPT ![t] =
                      IF ok THEN [task[t] EXCEPT !.pc = "get",
                                                 !.should_refresh = FALSE]
                            ELSE FetchFailed(task[t])]
    /\ UNCHANGED <<publicKey, handles, lastFetched>>

\* The GET fails, or its response is rejected (lines 52-55).
GetFailed(t) ==
    /\ task[t].pc = "get"
    /\ \E why \in FetchFailures :
          task' = [task EXCEPT ![t] = FetchFailed(task[t])]
    /\ UNCHANGED <<publicKey, handles, lastFetched>>

\* The GET answers 2xx with a JSON body (lines 55-56); line 38 stores what
\* data.get('publicKey') gave and line 39 returns what the cache now reads.
GetSucceeded(t) ==
    /\ task[t].pc = "get"
    /\ LET f == task[t]
           i == f.inst
       IN  \E v \in FetchedValues, d \in DecodeOutcomes(f) :
              /\ publicKey' = StoreKey(publicKey, i, v)
              /\ lastFetched' = [lastFetched EXCEPT ![i] = v]
              /\ task' = [task EXCEPT ![t] =
                            AfterKey([f EXCEPT !.keyStatus = "fetched"],
                                     StoreKey(publicKey, i, v)[i], d)]
    /\ UNCHANGED handles

\* asyncio.sleep(1) completes (line 44) and the loop test runs again.
SleepDone(t) ==
    /\ task[t].pc = "sleep"
    /\ \E sr \in BOOLEAN, d \in DecodeOutcomes(task[t]) :
          task' = [task EXCEPT ![t] = LoopTest(task[t], sr, d)]
    /\ UNCHANGED <<publicKey, handles, lastFetched>>

\* resolver.validate_token(token, public_key, options) completes (line 86).
ValidateTokenDone(t) ==
    /\ task[t].pc = "validate_token"
    /\ \E res \in ResolverOutcomes(task[t].token) :
          task' = [task EXCEPT ![t] = ValidateTokenReturn(task[t], res)]
    /\ UNCHANGED <<publicKey, handles, lastFetched>>

\* The caller takes the result (or the exception) of the finished call.
CallReturns(t) ==
    /\ task[t].pc = "done"
    /\ task' = [task EXCEPT ![t] = IdleFrame]
    /\ UNCHANGED <<publicKey, handles, lastFetched>>

\* ------------------------------------------------------------- one caller
\* One caller at a time, every operation, every input, on any instance, with
\* should_handle left open: each resolver may accept any set of enum values.
Caller == 1

Init ==
    /\ InitCommon
    /\ handles \in [Resolvers -> SUBSET AuthHeaderType]

Next ==
    \/ \E i \in Instances : GetPublicKeyCall(Caller, i)
    \/ \E i \in Instances, cred \in Credentials, type \in Types :
          ValidateCall(Caller, i, cred, type)
    \/ \E i \in Instances, header \in Credentials, verify \in BOOLEAN :
          DecodeJwtCall(Caller, i, header, verify)
    \/ RefreshDone(Caller)
    \/ GetFailed(Caller)
    \/ GetSucceeded(Caller)
    \/ SleepDone(Caller)
    \/ ValidateTokenDone(Caller)
    \/ CallReturns(Caller)

Spec == Init /\ [][Next]_vars

\* ------------------------------------------------------------- call after call
\* The caller takes the result of the finished call; how the call obtained
\* its key is remembered in the caller's next frame.  This is history only:
\* no line of the code reads it.
CallReturnsKept(t) ==
    /\ task[t].pc = "done"
    /\ task' = [task EXCEPT ![t] = [IdleFrame EXCEPT !.prev = task[t].keyStatus]]
    /\ UNCHANGED <<publicKey, handles, lastFetched>>

\* A caller awaits get_public_key() on the shared object; the frame keeps the
\* history of the previous call.
GetPublicKeyAgain(t, i) ==
    /\ task[t].pc = "idle"
    /\ \E sr \in BOOLEAN :
          task' = [task EXCEPT ![t] =
                      EnterGetPublicKey(
                          [task[t] EXCEPT !.op = "get_public_key", !.inst = i],
                          publicKey[i], sr, NoOutcome)]
    /\ UNCHANGED <<publicKey, handles, lastFetched>>

\* One caller awaiting get_public_key() on the shared object, call after call.
RetryInit ==
    /\ InitCommon
    /\ handles = StandardHandles

RetryNext ==
    \/ GetPublicKeyAgain(Caller, 1)
    \/ RefreshDone(Caller)
    \/ GetFailed(Caller)
    \/ GetSucceeded(Caller)
    \/ SleepDone(Caller)
    \/ CallReturnsKept(Caller)

RetrySpec == RetryInit /\ [][RetryNext]_vars

\* The awaits of the retry loop complete: the refresh answers or fails, the
\* GET answers or fails (timeout=3, line 53), the sleep of one second ends.
RetryFairness ==
    /\ WF_vars(RefreshDone(Caller))
    /\ WF_vars(GetFailed(Caller) \/ GetSucceeded(Caller))
    /\ WF_vars(SleepDone(Caller))

FairRetrySpec == RetryInit /\ [][RetryNext]_vars /\ RetryFairness

\* ------------------------------------------------------------- concurrent callers
\* NumTasks coroutines await get_public_key() on one shared validator (the
\* module-level singleton) and interleave at their awaits.
Shared == 1

ConcInit ==
    /\ InitCommon
    /\ handles = StandardHandles

ConcNext ==
    \E t \in Tasks :
        \/ GetPublicKeyCall(t, Shared)
        \/ RefreshDone(t)
        \/ GetFailed(t)
        \/ GetSucceeded(t)
        \/ SleepDone(t)
        \/ CallReturns(t)

ConcSpec == ConcInit /\ [][ConcNext]_vars

\* ------------------------------------------------------------- properties
InLoop(f) == f.pc \in {"refresh", "get", "sleep"}

\* The key get_public_key handed back: the result of a direct call, the local
\* public_key of validate_identity_on_token and decode_jwt.
KeyGot(f) == IF f.op = "get_public_key" THEN f.outcome.val ELSE f.public_key

\* The step in which task t calls an operation that reaches get_public_key.
EntersGetPublicKey(t) ==
    /\ task[t].pc = "idle"
    /\ task'[t].pc # "idle"
    /\ ~(task'[t].op = "decode_jwt" /\ HeaderMissing(task'[t].credential))

\* C1: a call of get_public_key that finds a non-empty key in the cache
\* returns exactly that key, in the same step: no vendor-token refresh, no
\* request, no fetch attempt, and the cache is left as it was.
C1_CachedKeyReturned ==
    [][\A t \in Tasks :
          (EntersGetPublicKey(t) /\ publicKey[task'[t].inst] \in Keys) =>
              /\ task'[t].keyStatus = "hit"
              /\ ~InLoop(task'[t])
              /\ KeyGot(task'[t]) = publicKey[task'[t].inst]
              /\ ~task'[t].netUsed
              /\ task'[t].fetchCalls = 0
              /\ publicKey' = publicKey]_vars

C1_Witness ==
    \E t \in Tasks :
        /\ task[t].pc = "done"
        /\ task[t].op = "get_public_key"
        /\ task[t].keyStatus = "hit"
        /\ task[t].outcome = Return("K2")

\* C2: with one caller, a get_public_key call on an empty cache whose first
\* N < 10 fetches fail and whose next fetch answers key K has made exactly
\* N + 1 fetch calls when it returns, returns K and leaves K in the cache;
\* while the cache holds a key no call is in the retry loop, and a call served
\* from the cache returns the key last fetched, without any fetch.
C2_FailThenSucceed ==
    \A t \in Tasks :
        LET f == task[t]
        IN  /\ f.pc \in {"refresh", "get"} => f.fetchCalls = f.reties + 1
            /\ (f.op = "get_public_key" /\ f.keyStatus = "fetched"
                    /\ lastFetched[f.inst] \in Keys) =>
                  /\ f.reties < RetryLimit
                  /\ f.fetchCalls = f.reties + 1
                  /\ f.outcome = Return(lastFetched[f.inst])
                  /\ publicKey[f.inst] = lastFetched[f.inst]
            /\ InLoop(f) => publicKey[f.inst] \notin Keys
            /\ f.keyStatus = "hit" =>
                  /\ KeyGot(f) = lastFetched[f.inst]
                  /\ KeyGot(f) \in Keys
                  /\ ~f.netUsed
                  /\ f.fetchCalls = 0

C2_Witness ==
    \E t \in Tasks :
        /\ task[t].pc = "done"
        /\ task[t].op = "get_public_key"
        /\ task[t].keyStatus = "fetched"
        /\ task[t].reties = 9
        /\ task[t].fetchCalls = 10
        /\ task[t].outcome = Return("K1")
        /\ publicKey[task[t].inst] = "K1"

\* C3: a get_public_key call never makes more than 10 fetch attempts, and a
\* call all of whose attempts failed (whatever failed: the token refresh, the
\* request, the status, the body) has made exactly 10 when it gives up.
C3_TenAttempts ==
    \A t \in Tasks :
        LET f == task[t]
        IN  /\ f.fetchCalls <= RetryLimit
            /\ f.pc = "sleep" => f.fetchCalls = f.reties
            /\ (f.op = "get_public_key" /\ f.keyStatus = "exhausted") =>
                  /\ f.fetchCalls = RetryLimit
                  /\ f.reties = RetryLimit

C3_Witness ==
    \E t \in Tasks :
        /\ task[t].pc = "done"
        /\ task[t].op = "get_public_key"
        /\ task[t].keyStatus = "exhausted"
        /\ task[t].fetchCalls = 10

\* No resolver of the list accepts the type.
Unclaimed(type) == \A r \in Resolvers : type \notin handles[r]
Claiming(type) == {r \in Resolvers : type \in handles[r]}

Unauthenticated(out) ==
    out.kind = "raise" /\ out.val = "UnauthenticatedException"

\* C4: a validate_identity_on_token call whose key lookup ran out of its 10
\* attempts raises UnauthenticatedException, for every declared type, and
\* never hands the missing key to a resolver.
C4_MissingKeyRaises ==
    \A t \in Tasks :
        LET f == task[t]
        IN  (f.op = "validate_identity_on_token" /\ f.keyStatus = "exhausted") =>
              /\ f.pc # "validate_token"
              /\ f.resolved = NoOutcome
              /\ f.pc = "done" => Unauthenticated(f.outcome)

\* C5 as claimed: for a declared type no resolver accepts, the validation
\* raises the no-resolver failure and makes no network call, whatever the
\* cache holds.
C5_NoResolverNoNetwork ==
    \A t \in Tasks :
        LET f == task[t]
        IN  (f.op = "validate_identity_on_token" /\ Unclaimed(f.type)) =>
              /\ ~f.netUsed
              /\ f.pc = "done" =>
                    f.outcome = Raise("UnauthenticatedException", "no_resolver")

\* C5 as amended: for a declared type no resolver accepts, the validation
\* ends with the no-resolver failure and no resolver's validate_token is
\* awaited; it makes no network call when it found a key in the cache, and a
\* call that did use the network found the cache empty and ran the key
\* lookup (a fetch, or all 10 attempts) before the resolver scan.
C5_NoResolverFails ==
    \A t \in Tasks :
        LET f == task[t]
        IN  (f.op = "validate_identity_on_token" /\ Unclaimed(f.type)) =>
              /\ f.pc # "validate_token"
              /\ f.resolved = NoOutcome
              /\ f.resolver = 0
              /\ f.pc = "done" =>
                    /\ f.outcome = Raise("UnauthenticatedException", "no_resolver")
                    /\ f.keyStatus \in {"hit", "fetched", "exhausted"}
                    /\ f.netUsed <=> f.keyStatus # "hit"

C5_Witness ==
    \E t \in Tasks :
        /\ task[t].op = "validate_identity_on_token"
        /\ task[t].pc = "done"
        /\ task[t].type = "Other"
        /\ Unclaimed(task[t].type)
        /\ task[t].keyStatus = "hit"
        /\ ~task[t].netUsed
        /\ task[t].outcome = Raise("UnauthenticatedException", "no_resolver")

\* C6: what validate_identity_on_token does with the resolver's answer: a
\* failure of validate_token reaches the caller as UnauthenticatedException,
\* a result is returned unchanged.
C6_ResolverFailureNormalized ==
    \A t \in Tasks :
        LET f == task[t]
        IN  (f.op = "validate_identity_on_token" /\ f.pc = "done") =>
              /\ f.resolved.kind = "raise" => Unauthenticated(f.outcome)
              /\ f.resolved.kind = "return" => f.outcome = f.resolved

\* C7: a validate_identity_on_token call with a missing (None) or empty
\* credential ends with UnauthenticatedException, for every declared type.
C7_EmptyCredentialRaises ==
    \A t \in Tasks :
        LET f == task[t]
        IN  (f.op = "validate_identity_on_token" /\ f.pc = "done"
                /\ f.credential \in {NoneTok, <<>>}) =>
              Unauthenticated(f.outcome)

\* C8: decode_jwt with a missing (None) or empty header raises the
\* header-missing InvalidTokenError in the step of the call itself: no key
\* lookup, no fetch attempt, no refresh, no request, the cache untouched.
C8_HeaderMissingFirst ==
    [][\A t \in Tasks :
          (/\ task[t].pc = "idle"
           /\ task'[t].pc # "idle"
           /\ task'[t].op = "decode_jwt"
           /\ task'[t].credential \in {NoneTok, <<>>}) =>
              /\ task'[t].pc = "done"
              /\ task'[t].outcome = Raise("InvalidTokenError", "header_missing")
              /\ task'[t].keyStatus = "none"
              /\ task'[t].fetchCalls = 0
              /\ ~task'[t].netUsed
              /\ publicKey' = publicKey]_vars

C8_Witness ==
    \E t \in Tasks :
        /\ task[t].op = "decode_jwt"
        /\ task[t].pc = "done"
        /\ task[t].credential = <<>>
        /\ publicKey[task[t].inst] = None
        /\ task[t].outcome = Raise("InvalidTokenError", "header_missing")

\* C9: the resolver whose validate_token is awaited is the one with the
\* lowest list index among those accepting the declared type, and no other
\* resolver is involved in the call; with no accepting resolver none is.
C9_FirstMatchWins ==
    \A t \in Tasks :
        LET f == task[t]
        IN  (f.op = "validate_identity_on_token"
                /\ f.pc \in {"validate_token", "done"}) =>
              /\ Claiming(f.type) # {} =>
                    /\ f.resolver \in Claiming(f.type)
                    /\ \A q \in Claiming(f.type) : f.resolver <= q
              /\ Claiming(f.type) = {} => f.resolver = 0
              /\ f.resolved # NoOutcome => f.resolver \in Claiming(f.type)

C9_Witness ==
    \E t \in Tasks :
        /\ task[t].op = "validate_identity_on_token"
        /\ task[t].pc = "done"
        /\ task[t].type = AccessToken
        /\ Claiming(task[t].type) = {1, 2}
        /\ task[t].resolver = 1
        /\ task[t].resolved.kind = "return"

\* The step in which task t's call ends.
Returns(t) == task[t].pc # "done" /\ task'[t].pc = "done"

\* C10 as claimed: once the cache of a validator holds a key it keeps holding
\* that key, and every call that ends afterwards got that key.
C10_KeyNeverReplaced ==
    [][\A i \in Instances :
          publicKey[i] \in Keys =>
              /\ publicKey'[i] = publicKey[i]
              /\ \A t \in Tasks :
                    (Returns(t) /\ task'[t].inst = i) =>
                        KeyGot(task'[t]) = publicKey[i]]_vars

\* C10 as amended: a cached key is reused by every call that starts while the
\* cache holds it: such a call ends at once with that key, whatever the
\* endpoint would answer.  The cache changes only when the fetch of a call
\* that found the cache empty on entry completes, so it keeps its key as long
\* as no call is in the retry loop; and every call that ends with a key ends
\* with the key the cache holds at that moment.
C10_KeyReusedByLaterCalls ==
    [][\A i \in Instances :
          /\ publicKey[i] \in Keys =>
                /\ \A t \in Tasks :
                      (EntersGetPublicKey(t) /\ task'[t].inst = i) =>
                          /\ task'[t].keyStatus = "hit"
                          /\ KeyGot(task'[t]) = publicKey[i]
                          /\ ~task'[t].netUsed
                /\ (\A t \in Tasks : ~(InLoop(task[t]) /\ task[t].inst = i)) =>
                      publicKey'[i] = publicKey[i]
          /\ publicKey'[i] # publicKey[i] =>
                \E t \in Tasks :
                    /\ task[t].pc = "get"
                    /\ task[t].inst = i
                    /\ task'[t].keyStatus = "fetched"
          /\ \A t \in Tasks :
                (Returns(t) /\ task'[t].inst = i
                    /\ task'[t].keyStatus \in {"hit", "fetched"}) =>
                    KeyGot(task'[t]) = publicKey'[i]]_vars

C10_Witness ==
    \E t, u \in Tasks :
        /\ t # u
        /\ task[t].pc = "done"
        /\ task[t].keyStatus = "fetched"
        /\ task[t].outcome = Return("K1")
        /\ task[u].pc = "done"
        /\ task[u].keyStatus = "hit"
        /\ task[u].outcome = Return("K1")
        /\ publicKey[Shared] = "K1"

\* C11: the key cache is one slot for the whole process: once any validator
\* holds a key, a get_public_key call on every validator is served that key
\* without a network call.
C11_ProcessWideCache ==
    [][\A t \in Tasks, i \in Instances :
          (EntersGetPublicKey(t) /\ publicKey[i] \in Keys) =>
              /\ KeyGot(task'[t]) = publicKey[i]
              /\ ~task'[t].netUsed]_vars

\* C12: a get_public_key call whose 10 attempts all failed returns None, it
\* does not raise, and the cache of its validator holds no key afterwards.
C12_ExhaustionReturnsNone ==
    \A t \in Tasks :
        LET f == task[t]
        IN  (f.op = "get_public_key" /\ f.keyStatus = "exhausted") =>
              /\ f.pc = "done"
              /\ f.outcome = Return(None)
              /\ publicKey[f.inst] \notin Keys
              /\ ~CacheHit(publicKey[f.inst])

C12_Witness ==
    \E t \in Tasks :
        /\ task[t].op = "get_public_key"
        /\ task[t].pc = "done"
        /\ task[t].keyStatus = "exhausted"
        /\ task[t].reties = RetryLimit
        /\ task[t].outcome = Return(None)
        /\ publicKey[task[t].inst] = None

\* The step in which the GET of task t is answered 2xx.
FetchCompletes(t) == task[t].pc = "get" /\ task'[t].keyStatus = "fetched"

\* C13: the cache of a validator changes only in the step in which a fetch
\* on that validator completes successfully, and then to the value that
\* fetch returned; every other step (a failed attempt, the end of a sleep,
\* the Bearer stripping, the resolver scan, validate_token, the decode)
\* leaves every cache as it is.  So each cache is empty (None) or holds what
\* a completed fetch on its validator returned.
C13_OnlyFetchWritesCache ==
    /\ \A i \in Instances : publicKey[i] = None
    /\ [][\A i \in Instances :
            /\ publicKey'[i] # publicKey[i] =>
                  \E t \in Tasks :
                      /\ FetchCompletes(t)
                      /\ task[t].inst = i
                      /\ publicKey'[i] = lastFetched'[i]
                      /\ lastFetched'[i] # lastFetched[i]
            /\ (\A t \in Tasks : ~(FetchCompletes(t) /\ task[t].inst = i)) =>
                  publicKey'[i] = publicKey[i]
            /\ publicKey'[i] = None \/ publicKey'[i] = lastFetched'[i]]_vars

C13_Witness ==
    \E t \in Tasks :
        /\ task[t].op = "validate_identity_on_token"
        /\ task[t].pc = "done"
        /\ task[t].keyStatus = "fetched"
        /\ task[t].resolved.kind = "return"
        /\ publicKey[task[t].inst] = "K1"
        /\ \E j \in Instances : publicKey[j] = None

\* The credential without a leading "Bearer ".
WithoutPrefix(cred) ==
    IF Len(cred) >= Len(Bearer) /\ SubSeq(cred, 1, Len(Bearer)) = Bearer
    THEN SubSeq(cred, Len(Bearer) + 1, Len(cred))
    ELSE cred

\* C16: the token handed to the resolver is, for type JWT, the credential
\* with a leading "Bearer " removed and nothing else changed, and for every
\* other type the credential itself.
C16_OnlyPrefixStripped ==
    \A t \in Tasks :
        LET f == task[t]
        IN  (f.op = "validate_identity_on_token" /\ f.pc = "validate_token") =>
              f.token = IF f.type = JWT /\ f.credential # NoneTok
                        THEN WithoutPrefix(f.credential)
                        ELSE f.credential

\* The step in which task t starts a fetch attempt (fetch_public_key is
\* called, line 38).
AttemptStarts(t) == task'[t].fetchCalls = task[t].fetchCalls + 1

\* The step in which the GET of line 52 is issued by task t.
GetIssued(t) == task[t].pc # "get" /\ task'[t].pc = "get"

\* C14: within a fetch attempt the vendor token is refreshed first when the
\* authenticator asks for it, and the GET is issued only once the refresh
\* has completed; a failed refresh ends the attempt without a GET and is
\* counted as a failed attempt; with no refresh due none is started and the
\* GET is issued at once; an attempt issues at most one GET.
C14_RefreshBeforeGet ==
    [][\A t \in Tasks :
          LET f == task[t]
              g == task'[t]
          IN  /\ AttemptStarts(t) =>
                    g.pc = IF g.should_refresh THEN "refresh" ELSE "get"
              /\ GetIssued(t) =>
                    \/ f.pc = "refresh" /\ f.should_refresh /\ ~AttemptStarts(t)
                    \/ AttemptStarts(t) /\ ~g.should_refresh
              /\ g.pc = "refresh" => g.should_refresh
              /\ g.pc = "get" => ~g.should_refresh
              /\ (f.pc = "refresh" /\ g # f) =>
                    \/ g = [f EXCEPT !.pc = "get", !.should_refresh = FALSE]
                    \/ /\ g.pc = "sleep"
                       /\ g.reties = f.reties + 1
                       /\ g.fetchCalls = f.fetchCalls
              /\ (f.pc = "get" /\ g # f) =>
                    /\ g.pc \notin {"get", "refresh"}
                    /\ g.fetchCalls \in {f.fetchCalls, 0}]_vars

\* The second attempt of a call stands in the refresh its authenticator
\* asked for; no GET of that attempt is under way.
C14_Witness ==
    \E t \in Tasks :
        /\ task[t].pc = "refresh"
        /\ task[t].should_refresh
        /\ task[t].reties = 1
        /\ task[t].fetchCalls = 2

\* Task t is inside a call: it has been started and has not ended.
InCall(t) == task[t].pc \notin {"idle", "done"}

\* Task u runs: the step is one of u's.
Runs(u) == task'[u] # task[u]

\* The step in which a fetch attempt of task t fails.
AttemptFails(t) == task'[t].reties = task[t].reties + 1

C17_GetPublicKeyReturns ==
    /\ [][LET f == task[Caller]
              g == task'[Caller]
          IN  /\ (f.pc \in {"refresh", "get"} /\ g.pc = "sleep") =>
                    g.reties = f.reties + 1
              /\ g.reties <= RetryLimit
              /\ (f.pc = "sleep" /\ g # f) =>
                    IF f.reties < RetryLimit
                    THEN g.pc \in {"refresh", "get"} /\ g.reties = f.reties
                    ELSE g.pc = "done" /\ g.outcome = Return(None)]_vars
    /\ (task[Caller].pc \in {"refresh", "get", "sleep"})
          ~> (task[Caller].pc = "done" /\ task[Caller].outcome.kind = "return")

C17_Witness ==
    /\ task[Caller].pc = "done"
    /\ task[Caller].keyStatus = "fetched"
    /\ task[Caller].reties = RetryLimit - 1
    /\ task[Caller].fetchCalls = RetryLimit
    /\ task[Caller].outcome = Return("K2")

\* C18: exhaustion is not remembered.  A call that follows a call which used
\* up its 10 attempts starts with the counter at 0 and its first attempt,
\* makes at most 10 attempts of its own, and the first of them that the
\* endpoint answers with a key ends the call with that key and fills the
\* cache.
C18_NoNegativeCaching ==
    [][LET f == task[Caller]
           g == task'[Caller]
       IN  /\ (f.pc = "idle" /\ f.prev = "exhausted" /\ g # f) =>
                 /\ publicKey[g.inst] \notin Keys
                 /\ g.pc \in {"refresh", "get"}
                 /\ g.reties = 0
                 /\ g.fetchCalls = 1
           /\ (g.prev = "exhausted" /\ g.pc \in {"refresh", "get", "sleep"}) =>
                 /\ g.reties < RetryLimit \/ g.pc = "sleep"
                 /\ g.fetchCalls = g.reties + (IF g.pc = "sleep" THEN 0 ELSE 1)
           /\ (f.prev = "exhausted" /\ FetchCompletes(Caller)
                  /\ lastFetched'[f.inst] \in Keys) =>
                 /\ g.pc = "done"
                 /\ g.outcome = Return(lastFetched'[f.inst])
                 /\ publicKey'[f.inst] = lastFetched'[f.inst]]_vars

C18_Witness ==
    /\ task[Caller].prev = "exhausted"
    /\ task[Caller].pc = "done"
    /\ task[Caller].keyStatus = "fetched"
    /\ task[Caller].reties = 2
    /\ task[Caller].outcome = Return("K1")
    /\ publicKey[task[Caller].inst] = "K1"

\* The calls that found the cache empty on entry and have ended.
Missed == {t \in Tasks : /\ task[t].pc = "done"
                         /\ task[t].keyStatus \in {"fetched", "exhausted"}}

\* The fetch attempts made by the calls of S, added up.
RECURSIVE Attempts(_)
Attempts(S) ==
    IF S = {} THEN 0
    ELSE LET t == CHOOSE x \in S : TRUE
         IN  task[t].fetchCalls + Attempts(S \ {t})

AttemptsInRange ==
    LET k == Cardinality(Missed)
        n == Attempts(Missed)
    IN  k <= n /\ n <= RetryLimit * k

\* C19: concurrent key fetches are not coalesced.  A call that found the
\* cache empty never looks at it again: it never ends as a cache hit, and
\* after each sleep it starts its next attempt even when another call has
\* stored a key meanwhile.  The calls that missed the cache make between 1
\* and 10 attempts each; a call whose fetch completes returns what that very
\* fetch gave; and the cache holds what the fetch that completed last gave.
C19_FetchesNotCoalesced ==
    /\ [](AttemptsInRange /\ publicKey = lastFetched)
    /\ [][\A t \in Tasks :
             LET f == task[t]
                 g == task'[t]
             IN  g # f =>
                   /\ InLoop(f) => g.keyStatus # "hit"
                   /\ (f.pc = "sleep" /\ f.reties < RetryLimit) =>
                          AttemptStarts(t)
                   /\ FetchCompletes(t) =>
                          /\ g.pc = "done"
                          /\ g.outcome = Return(lastFetched'[f.inst])
                          /\ publicKey'[f.inst] = lastFetched'[f.inst]
                   /\ lastFetched' # lastFetched => FetchCompletes(t)]_vars

\* Two calls that both missed the cache have each returned the key of their
\* own fetch; the cache holds the key of the later one.
C19_Witness ==
    \E t, u \in Tasks :
        /\ t # u
        /\ task[t].pc = "done" /\ task[t].outcome = Return("K1")
        /\ task[u].pc = "done" /\ task[u].outcome = Return("K2")
        /\ task[t].keyStatus = "fetched"
        /\ task[u].keyStatus = "fetched"
        /\ publicKey[Shared] = "K2"
        /\ Attempts(Missed) = 5

\* C20: a 2xx answer whose body has no publicKey is not a failed attempt.
\* The call ends in that step: it returns None, it does not raise, the retry
\* counter is not raised and no further attempt is made; the cache holds
\* None afterwards, and the call that comes next finds no key and goes to
\* the network again.
C20_MissingFieldEndsLoop ==
    [][LET f == task[Caller]
           g == task'[Caller]
       IN  /\ (FetchCompletes(Caller) /\ lastFetched'[f.inst] = None) =>
                 /\ g.pc = "done"
                 /\ g.outcome = Return(None)
                 /\ g.reties = f.reties
                 /\ g.fetchCalls = f.fetchCalls
                 /\ publicKey'[f.inst] = None
           /\ (EntersGetPublicKey(Caller) /\ g.prev = "fetched"
                  /\ lastFetched[g.inst] = None) =>
                 /\ g.pc \in {"refresh", "get"}
                 /\ g.netUsed
                 /\ g.fetchCalls = 1]_vars

\* The call after one that was answered 2xx without a key has its GET under
\* way.
C20_Witness ==
    /\ task[Caller].prev = "fetched"
    /\ task[Caller].pc = "get"
    /\ task[Caller].fetchCalls = 1
    /\ lastFetched[task[Caller].inst] = None
    /\ publicKey[task[Caller].inst] = None

====
